---- MODULE Spec2Model ----
(***************************************************************************)
(* Fast Fourier Transform library (python/fft_list.py and its array and    *)
(* NumPy twins): the direct transform, the two radix-2 transforms, the     *)
(* mixed-radix transform and their helpers bit_reverse and __factor.       *)
(*                                                                         *)
(* Samples are modelled in exact arithmetic.  The code computes in the     *)
(* complex numbers, where exp(-2j*pi/N) is a primitive N-th root of unity; *)
(* the model computes in the prime field GF(P), P = 15121, whose           *)
(* multiplicative group is cyclic of order 15120 = 16*27*5*7 and so holds  *)
(* a primitive N-th root of unity for every length N the model uses.  An   *)
(* angle -2*pi*t/(P-1) is the integer t modulo P-1, and exp of that angle  *)
(* is G^t for the generator G, so exp(a)*exp(b) = exp(a+b) and             *)
(* exp(-2j*pi/N)^(N/M) = exp(-2j*pi/M) hold as they do in the code.        *)
(***************************************************************************)
EXTENDS Integers, Sequences, FiniteSets, TLC

\* ------------------------------------------------------------- bounds
\* Longest input sequence of the transform specifications.
MaxN == 8
\* Input samples are drawn from 0..MaxSample.
MaxSample == 1

\* ------------------------------------------------ complex arithmetic
\* The modulus of the sample field.
P == 15121
\* A generator of the multiplicative group of GF(P): the image of
\* exp(-2j*pi/(P-1)).
G == 11

\* x + y, x - y, x * y on samples (complex.__add__, __sub__, __mul__).
Add(u, v) == (u + v) % P
Sub(u, v) == (u - v + P) % P
Mul(u, v) == (u * v) % P

\* b^e by repeated squaring.
RECURSIVE Pow(_, _)
Pow(b, e) ==
    IF e = 0 THEN 1
    ELSE IF e % 2 = 1 THEN Mul(b, Pow(b, e - 1))
    ELSE (Pow(b, e \div 2) ^ 2) % P

\* exp of every angle: ExpTable[t] = G^t, the image of exp(-2j*pi*t/(P-1)).
ExpTable == [t \in 0..(P - 2) |-> Pow(G, t)]

\* cm.exp(-2j*cm.pi*k/N): the k-th power of the primitive N-th root of unity.
\* Defined for the lengths N that divide P - 1.
Twiddle(k, N) == ExpTable[(((P - 1) \div N) * k) % (P - 1)]

\* ------------------------------------------------------- direct_ft
\* Mutant of DirectSum: the summation runs over range(0, N-1) and drops the
\* last sample.
RECURSIVE DirectSum_DropsLast(_, _, _, _, _)
DirectSum_DropsLast(x, n, Wk, Wkn, acc) ==
    IF n >= Len(x) - 1 THEN acc
    ELSE DirectSum_DropsLast(x, n + 1, Wk, Mul(Wkn, Wk), Add(acc, Mul(x[n + 1], Wkn)))

\* The summation loop "for n in range(0, N)" of direct_ft for one k:
\* acc is X[k], Wkn the running product Wk^n.
RECURSIVE DirectSum(_, _, _, _, _)
DirectSum(x, n, Wk, Wkn, acc) ==
    IF n = Len(x) THEN acc
    ELSE DirectSum(x, n + 1, Wk, Mul(Wkn, Wk), Add(acc, Mul(x[n + 1], Wkn)))

\* Mutant of DirectLoop: Wkn starts each summation at Wk instead of 1.
RECURSIVE DirectLoop_WknFromWk(_, _, _, _, _)
DirectLoop_WknFromWk(x, k, W, Wk, X) ==
    IF k = Len(x) THEN X
    ELSE DirectLoop_WknFromWk(x, k + 1, W, Mul(Wk, W),
                              [X EXCEPT ![k + 1] = DirectSum(x, 0, Wk, Wk, X[k + 1])])

\* The loop "for k in range(0, N)" of direct_ft: Wk is the running product W^k.
RECURSIVE DirectLoop(_, _, _, _, _)
DirectLoop(x, k, W, Wk, X) ==
    IF k = Len(x) THEN X
    ELSE DirectLoop(x, k + 1, W, Mul(Wk, W),
                    [X EXCEPT ![k + 1] = DirectSum(x, 0, Wk, 1, X[k + 1])])

\* Mutant of direct_ft: the accumulators start at 1 instead of 0.
direct_ft_OnesInit(x) ==
    LET N == Len(x)
        X == [i \in 1..N |-> 1]
        W == Twiddle(1, N)
    IN  DirectLoop(x, 0, W, 1, X)

direct_ft(x) ==
    LET N == Len(x)
        X == [i \in 1..N |-> 0]
        W == Twiddle(1, N)
    IN  DirectLoop(x, 0, W, 1, X)

\* ---------------------------------------------------------- lc_dft
\* sum([ xn*cm.exp(-2j*cm.pi*n*k/len(x)) for n, xn in enumerate(x) ]),
\* the terms n = 0..upto-1.
RECURSIVE LcSum(_, _, _)
LcSum(x, k, upto) ==
    IF upto = 0 THEN 0
    ELSE Add(LcSum(x, k, upto - 1), Mul(x[upto], Twiddle((upto - 1) * k, Len(x))))

\* lc_dft = lambda x: [ sum([...]) for k, _ in enumerate(x) ]: one element per
\* element of x, so the empty list gives the empty list.
lc_dft(x) == [i \in 1..Len(x) |-> LcSum(x, i - 1, Len(x))]

\* ------------------------------------------- fft_numpy.simplified_ft
\* Wkn = W ** (k*n), n = np.arange(N); np.sum(x * Wkn), the terms 0..upto-1.
RECURSIVE PowerSum(_, _, _, _)
PowerSum(x, W, k, upto) ==
    IF upto = 0 THEN 0
    ELSE Add(PowerSum(x, W, k, upto - 1), Mul(x[upto], Pow(W, k * (upto - 1))))

\* W = np.exp(-2j*np.pi/N); for k in range(0, N): X[k] = np.sum(x * Wkn).
simplified_ft(x) ==
    LET N == Len(x)
        W == Twiddle(1, N)
    IN  [i \in 1..N |-> PowerSum(x, W, i - 1, N)]

\* ----------------------------------------------- fft_numpy.matrix_ft
\* Mutant of Kernel: the exponent is k + n instead of k * n.
Kernel_AddsIndices(N) ==
    [i \in 1..N |-> [j \in 1..N |-> Twiddle((j - 1) + (i - 1), N)]]

\* k, n = np.meshgrid(np.arange(N), np.arange(N)): k[i][j] = j, n[i][j] = i;
\* W = np.exp(-2j*k*n*np.pi/N), the transform kernel, row by row.
Kernel(N) ==
    [i \in 1..N |-> [j \in 1..N |-> Twiddle((j - 1) * (i - 1), N)]]

\* The product of one row of the kernel and x, the terms 0..upto-1.
RECURSIVE RowDot(_, _, _)
RowDot(row, x, upto) ==
    IF upto = 0 THEN 0
    ELSE Add(RowDot(row, x, upto - 1), Mul(row[upto], x[upto]))

\* np.dot(W, x)
matrix_ft(x) ==
    LET N == Len(x)
        W == Kernel(N)
    IN  [i \in 1..N |-> RowDot(W[i], x, N)]

\* --------------------------------------------------- recursive_fft
\* Mutant of Slice: the slice is the whole list, whatever start and step.
Slice_Whole(x, start, step) == x

\* Mutant of Slice: the slice is x[1:], one element shorter than x.
Slice_DropsOne(x, start, step) == [i \in 1..(Len(x) - 1) |-> x[i + 1]]

\* Mutant of Slice: the samples are split into step runs of neighbours, and
\* run number start is taken, instead of every step-th sample.
Slice_Run(x, start, step) ==
    [i \in 1..(Len(x) \div step) |-> x[start * (Len(x) \div step) + i]]

\* Mutant of Slice: the same elements, the last one first (x[start::step][::-1]).
Slice_Backwards(x, start, step) ==
    LET cnt == IF start >= Len(x) THEN 0
               ELSE (Len(x) - start + step - 1) \div step
    IN  [i \in 1..cnt |-> x[start + (cnt - i) * step + 1]]

\* The extended slice x[start::step] (start counted from 0).
Slice(x, start, step) ==
    LET cnt == IF start >= Len(x) THEN 0
               ELSE (Len(x) - start + step - 1) \div step
    IN  [i \in 1..cnt |-> x[start + (i - 1) * step + 1]]

Min(u, v) == IF u <= v THEN u ELSE v

\* Mutant of ZipMul: zip(W[1:], Xo), one twiddle factor short.
ZipMul_SkipsFirst(W, Xo) ==
    [i \in 1..Min(Len(W) - 1, Len(Xo)) |-> Mul(W[i + 1], Xo[i])]

\* [ Wk*Xok for Wk, Xok in zip(W, Xo) ]: zip stops at the shorter list.
ZipMul(W, Xo) == [i \in 1..Min(Len(W), Len(Xo)) |-> Mul(W[i], Xo[i])]
\* Mutant of ZipAdd: the shorter list is padded with zeros (zip_longest)
\* instead of the longer one being cut.
ZipAdd_Longest(Xe, WXo) ==
    [i \in 1..(IF Len(Xe) >= Len(WXo) THEN Len(Xe) ELSE Len(WXo)) |->
        Add(IF i <= Len(Xe) THEN Xe[i] ELSE 0, IF i <= Len(WXo) THEN WXo[i] ELSE 0)]
\* [ Xek + WXok for Xek, WXok in zip(Xe, WXo) ]
ZipAdd(Xe, WXo) == [i \in 1..Min(Len(Xe), Len(WXo)) |-> Add(Xe[i], WXo[i])]
\* Mutant of ZipSub: the second half adds, like the first.
ZipSub_Adds(Xe, WXo) == [i \in 1..Min(Len(Xe), Len(WXo)) |-> Add(Xe[i], WXo[i])]
\* [ Xek - WXok for Xek, WXok in zip(Xe, WXo) ]
ZipSub(Xe, WXo) == [i \in 1..Min(Len(Xe), Len(WXo)) |-> Sub(Xe[i], WXo[i])]

RECURSIVE recursive_fft(_)
recursive_fft(x) ==
    IF Len(x) = 1 THEN x
    ELSE LET N == Len(x)
             Xe == recursive_fft(Slice(x, 0, 2))
             Xo == recursive_fft(Slice(x, 1, 2))
             W == [k \in 1..(N \div 2) |-> Twiddle(k - 1, N)]
             WXo == ZipMul(W, Xo)
         IN  ZipAdd(Xe, WXo) \o ZipSub(Xe, WXo)

\* ----------------------------------------------------- bit_reverse
\* Mutant of BitLoop: k is never shifted, so every bit read is bit 0 of k.
RECURSIVE BitLoop_NoShift(_, _, _, _)
BitLoop_NoShift(k, r, i, l) ==
    IF i = r THEN l
    ELSE BitLoop_NoShift(k, r, i + 1, 2 * l + (k % 2))

\* Mutant of BitLoop: k is shifted before its bit is read, k = k >> 1 first.
RECURSIVE BitLoop_ShiftsFirst(_, _, _, _)
BitLoop_ShiftsFirst(k, r, i, l) ==
    IF i = r THEN l
    ELSE BitLoop_ShiftsFirst(k \div 2, r, i + 1, 2 * l + ((k \div 2) % 2))

\* The loop "for i in range(0, r)": l = (l << 1) + (k & 1); k = k >> 1.
RECURSIVE BitLoop(_, _, _, _)
BitLoop(k, r, i, l) ==
    IF i = r THEN l
    ELSE BitLoop(k \div 2, r, i + 1, 2 * l + (k % 2))

\* Mutant of bit_reverse: the index is returned as it is.
bit_reverse_Identity(k, r) == k

bit_reverse(k, r) == BitLoop(k, r, 0, 0)

\* --------------------------------------------------- iterative_fft
\* What a call produces: a returned sequence or a raised exception.
NoResult == [status |-> "none", value |-> <<>>]
Returned(v) == [status |-> "ok", value |-> v]
Raised(e) == [status |-> e, value |-> <<>>]

\* int(math.log2(N)) for N >= 1.
RECURSIVE Log2Floor(_)
Log2Floor(N) == IF N < 2 THEN 0 ELSE 1 + Log2Floor(N \div 2)

\* The loop "for k in range(0, N)": X[bit_reverse(k, r)] = x[k].
RECURSIVE Reorder(_, _, _, _)
Reorder(x, X, k, r) ==
    IF k = Len(x) THEN X
    ELSE Reorder(x, [X EXCEPT ![bit_reverse(k, r) + 1] = x[k + 1]], k + 1, r)

\* Mutant of Butterfly: the two assignments in the other order,
\* X[p] = 2*X[p] - X[q] first.
Butterfly_PFirst(X, p, q, Wkn) ==
    LET X1 == [X EXCEPT ![p + 1] = Sub(Mul(2, X[p + 1]), X[q + 1])]
    IN  [X1 EXCEPT ![q + 1] = Sub(X1[p + 1], Mul(Wkn, X1[q + 1]))]

\* Mutant of Butterfly: the second assignment is X[p] = X[p] - X[q].
Butterfly_NoDouble(X, p, q, Wkn) ==
    LET X1 == [X EXCEPT ![q + 1] = Sub(X[p + 1], Mul(Wkn, X[q + 1]))]
    IN  [X1 EXCEPT ![p + 1] = Sub(X1[p + 1], X1[q + 1])]

\* X[q] = X[p] - Wkn*X[q]; X[p] = 2*X[p] - X[q]  (p, q counted from 0).
Butterfly(X, p, q, Wkn) ==
    LET X1 == [X EXCEPT ![q + 1] = Sub(X[p + 1], Mul(Wkn, X[q + 1]))]
    IN  [X1 EXCEPT ![p + 1] = Sub(Mul(2, X1[p + 1]), X1[q + 1])]

\* The loop "for n in range(0, step)" of one block; an index outside the
\* list raises IndexError and ends the call.
RECURSIVE BlockLoop(_, _, _, _, _, _)
BlockLoop(R, l, n, step, W, Wkn) ==
    IF R.status # "ok" \/ n = step THEN R
    ELSE LET p == l + n
             q == p + step
         IN  IF q >= Len(R.value) THEN Raised("IndexError")
             ELSE BlockLoop(Returned(Butterfly(R.value, p, q, Wkn)),
                            l, n + 1, step, W, Mul(Wkn, W))

\* The loop "for l in range(0, N, 2*step)" of one pass;
\* W = cm.exp(-1j * cm.pi / step).
RECURSIVE PassLoop(_, _, _, _)
PassLoop(R, N, l, step) ==
    IF R.status # "ok" \/ l >= N THEN R
    ELSE PassLoop(BlockLoop(R, l, 0, step, Twiddle(1, 2 * step), 1),
                  N, l + 2 * step, step)

\* The loop "for k in range(0, r)": step doubles after every pass.
RECURSIVE MergeLoop(_, _, _, _, _)
MergeLoop(R, N, k, r, step) ==
    IF R.status # "ok" \/ k = r THEN R
    ELSE MergeLoop(PassLoop(R, N, 0, step), N, k + 1, r, 2 * step)

\* Mutant of iterative_fft: a length that is not a power of two is rejected
\* before any work is done.
iterative_fft_Checked(x) ==
    LET N == Len(x)
        r == Log2Floor(N)
        X == Reorder(x, x, 0, r)
    IN  IF N # 2 ^ r THEN Raised("ValueError")
        ELSE MergeLoop(Returned(X), N, 0, r, 1)

iterative_fft(x) ==
    LET N == Len(x)
        r == Log2Floor(N)
        X == Reorder(x, x, 0, r)
    IN  MergeLoop(Returned(X), N, 0, r, 1)

\* -------------------------------------------------------- __factor
\* int(math.ceil(cm.sqrt(n).real)): the least rn with rn*rn >= n.
CeilSqrt(n) == CHOOSE rn \in 0..n : rn * rn >= n /\ (rn = 0 \/ (rn - 1) * (rn - 1) < n)

\* Mutant of FactorLoop: the loop is range(2, rn) and never tries rn.
RECURSIVE FactorLoop_Exclusive(_, _, _)
FactorLoop_Exclusive(n, i, rn) ==
    IF i >= rn THEN n
    ELSE IF n % i = 0 THEN i
    ELSE FactorLoop_Exclusive(n, i + 1, rn)

\* Mutant of FactorLoop: the loop is range(1, rn+1), and its first divisor,
\* 1, divides n.
FactorLoop_FromOne(n, i, rn) == IF rn >= 1 THEN 1 ELSE n

\* The loop "for i in range(2, rn+1)".
RECURSIVE FactorLoop(_, _, _)
FactorLoop(n, i, rn) ==
    IF i > rn THEN n
    ELSE IF n % i = 0 THEN i
    ELSE FactorLoop(n, i + 1, rn)

\* Mutant of __factor: no divisor is tried, n is returned.
__factor_NoSearch(n) == n

__factor(n) == FactorLoop(n, 2, CeilSqrt(n))

\* -------------------------------------------------- recursive_nfft
\* Mutant of RecombineLoop: Wkj is not reset per phase but advanced by Wj
\* before its first use.
RECURSIVE RecombineLoop_EarlyUpdate(_, _, _, _, _, _)
RecombineLoop_EarlyUpdate(X, Xj, N2, k, Wj, Wkj) ==
    IF k = Len(X) THEN X
    ELSE RecombineLoop_EarlyUpdate(
             [X EXCEPT ![k + 1] = Add(@, Mul(Xj[(k % N2) + 1], Mul(Wkj, Wj)))],
             Xj, N2, k + 1, Wj, Mul(Wkj, Wj))

\* Mutant of RecombineLoop: the update is Wkj = Wkj * Wkj.
RECURSIVE RecombineLoop_SquaresWkj(_, _, _, _, _, _)
RecombineLoop_SquaresWkj(X, Xj, N2, k, Wj, Wkj) ==
    IF k = Len(X) THEN X
    ELSE RecombineLoop_SquaresWkj(
             [X EXCEPT ![k + 1] = Add(@, Mul(Xj[(k % N2) + 1], Wkj))],
             Xj, N2, k + 1, Wj, (Wkj ^ 2) % P)

\* The loop "for k in range(N)": X[k] = X[k] + Xj[k%N2] * Wkj.
RECURSIVE RecombineLoop(_, _, _, _, _, _)
RecombineLoop(X, Xj, N2, k, Wj, Wkj) ==
    IF k = Len(X) THEN X
    ELSE RecombineLoop([X EXCEPT ![k + 1] = Add(@, Mul(Xj[(k % N2) + 1], Wkj))],
                       Xj, N2, k + 1, Wj, Mul(Wkj, Wj))

RECURSIVE recursive_nfft(_)
\* The loop "for j in range(N1)" with its recursive calls.
RECURSIVE PhaseLoop(_, _, _, _, _, _, _)
PhaseLoop(x, X, N1, N2, j, W, Wj) ==
    IF j = N1 THEN X
    ELSE LET Xj == recursive_nfft(Slice(x, j, N1))
         IN  PhaseLoop(x, RecombineLoop(X, Xj, N2, 0, Wj, 1),
                       N1, N2, j + 1, W, Mul(Wj, W))

recursive_nfft(x) ==
    LET N == Len(x)
        N1 == __factor(N)
    IN  IF N1 = N THEN direct_ft(x)
        ELSE LET N2 == N \div N1
                 X == [i \in 1..N |-> 0]
                 W == Twiddle(1, N)
             IN  PhaseLoop(x, X, N1, N2, 0, W, 1)

\* ---------------------------------- fft_numpy.vec_recursive_nfft
\* k = np.arange(N); Wk = np.exp(-2j*np.pi*k/N): one twiddle factor per k.
WkVector(N) == [i \in 1..N |-> Twiddle(i - 1, N)]

RECURSIVE vec_recursive_nfft(_)
\* The loop "for j in range(N1)": X = X + Xj[k%N2]*Wkj; Wkj = Wkj * Wk, on
\* whole vectors.
RECURSIVE VecPhaseLoop(_, _, _, _, _, _, _)
VecPhaseLoop(x, X, N1, N2, j, Wk, Wkj) ==
    IF j = N1 THEN X
    ELSE LET Xj == vec_recursive_nfft(Slice(x, j, N1))
         IN  VecPhaseLoop(x,
                          [i \in 1..Len(X) |->
                              Add(X[i], Mul(Xj[((i - 1) % N2) + 1], Wkj[i]))],
                          N1, N2, j + 1, Wk,
                          [i \in 1..Len(Wkj) |-> Mul(Wkj[i], Wk[i])])

vec_recursive_nfft(x) ==
    LET N == Len(x)
        N1 == __factor(N)
    IN  IF N1 = N THEN direct_ft(x)
        ELSE LET N2 == N \div N1
                 X == [i \in 1..N |-> 0]
                 Wk == WkVector(N)
                 Wkj == [i \in 1..N |-> 1]
             IN  VecPhaseLoop(x, X, N1, N2, 0, Wk, Wkj)

\* --------------------------------- anyfft_array.vec_recursive_fft
\* Wkj = exp(-2j*pi*k*j/N), k = arange(N): computed anew in every phase.
DirectTwiddles(N, j) == [i \in 1..N |-> Twiddle((i - 1) * j, N)]

RECURSIVE vec_recursive_fft(_)
\* The loop "for j in range(N1)": Wkj = exp(-2j*pi*k*j/N); X = X + Xj[k%N2]*Wkj.
RECURSIVE DirectPhaseLoop(_, _, _, _, _)
DirectPhaseLoop(x, X, N1, N2, j) ==
    IF j = N1 THEN X
    ELSE LET Xj == vec_recursive_fft(Slice(x, j, N1))
         IN  DirectPhaseLoop(x,
                             [i \in 1..Len(X) |->
                                 Add(X[i], Mul(Xj[((i - 1) % N2) + 1],
                                               DirectTwiddles(Len(X), j)[i]))],
                             N1, N2, j + 1)

vec_recursive_fft(x) ==
    LET N == Len(x)
        N1 == __factor(N)
    IN  IF N1 = N THEN direct_ft(x)
        ELSE DirectPhaseLoop(x, [i \in 1..N |-> 0], N1, N \div N1, 0)

\* ------------------------------------------------------------ state
VARIABLES
    x,          \* the caller's input sequence
    strategy,   \* the transform the caller has called ("none" before the call)
    X,          \* what the call on x produced: [status, value]
    y,          \* a second input of the same length (linearity runs)
    a, b,       \* two scalars (linearity runs)
    Y,          \* what the call on y produced
    Z,          \* what the call on a*x + b*y produced
    k, r,       \* the arguments of bit_reverse
    l,          \* what bit_reverse(k, r) returned
    back,       \* what bit_reverse(l, r) returned
    n,          \* the argument of __factor
    N1,         \* what __factor(n) returned
    heap,       \* the live list objects: identity |-> elements
    stack,      \* per thread, the frames of the calls in progress (innermost last)
    arg,        \* per thread, the identity of the caller's input list
    orig,       \* per thread, the elements of the input list before the first call
    task,       \* per thread, the transform the caller calls
    outcome,    \* per thread, how the last call ended: [status, ref]
    calls,      \* per thread, how many calls of each function the current call has made
    runs,       \* per thread, how many calls have returned
    repeats     \* how many times the caller calls the transform

transformVars == <<x, strategy, X>>
linearVars == <<y, a, b, Y, Z>>
bitVars == <<k, r, l, back>>
factorVars == <<n, N1>>
setupVars == <<arg, orig, task, repeats>>
machineVars == <<heap, stack, outcome, calls, runs, setupVars>>
vars == <<transformVars, linearVars, bitVars, factorVars, machineVars>>

Samples == 0..MaxSample

\* x = [ j+0j for j in range(size) ]: the input test_it and time_it build.
Ramp(size) == [i \in 1..size |-> i - 1]

\* The sizes test_it is called with: 8, 16 and 12 by main_test.py, and the
\* small sizes 4, 6 and 7.
TestSizes == {4, 6, 7, 8, 12, 16}

\* All sequences of length 1..MaxN over the sample values, and the ramps.
Inputs ==
    UNION {[1..N -> Samples] : N \in 1..MaxN} \cup {Ramp(size) : size \in TestSizes}

\* Values of the variables a specification does not use.
IdleTransform == x = <<>> /\ strategy = "none" /\ X = NoResult
IdleLinear == y = <<>> /\ a = 0 /\ b = 0 /\ Y = NoResult /\ Z = NoResult
IdleBits == k = 0 /\ r = 0 /\ l = NoResult /\ back = NoResult
IdleFactor == n = 1 /\ N1 = NoResult
IdleMachine ==
    /\ heap = <<>> /\ stack = <<>> /\ outcome = <<>> /\ calls = <<>> /\ runs = <<>>
    /\ arg = <<>> /\ orig = <<>> /\ task = <<>> /\ repeats = 0

\* ------------------------------------------- one transform of one input
\* test_it: x is built, then X = f(x) is called once.
Init ==
    /\ x \in Inputs
    /\ strategy = "none"
    /\ X = NoResult
    /\ IdleLinear /\ IdleBits /\ IdleFactor
    /\ IdleMachine

\* X = direct_ft(x)
CallDirect ==
    /\ strategy = "none"
    /\ strategy' = "direct_ft"
    /\ X' = Returned(direct_ft(x))
    /\ UNCHANGED <<x, linearVars, bitVars, factorVars, machineVars>>

\* X = recursive_fft(x)
CallRecursive ==
    /\ strategy = "none"
    /\ strategy' = "recursive_fft"
    /\ X' = Returned(recursive_fft(x))
    /\ UNCHANGED <<x, linearVars, bitVars, factorVars, machineVars>>

\* X = iterative_fft(x)
CallIterative ==
    /\ strategy = "none"
    /\ strategy' = "iterative_fft"
    /\ X' = iterative_fft(x)
    /\ UNCHANGED <<x, linearVars, bitVars, factorVars, machineVars>>

\* X = recursive_nfft(x)
CallMixed ==
    /\ strategy = "none"
    /\ strategy' = "recursive_nfft"
    /\ X' = Returned(recursive_nfft(x))
    /\ UNCHANGED <<x, linearVars, bitVars, factorVars, machineVars>>

Next ==
    \/ CallDirect
    \/ CallRecursive
    \/ CallIterative
    \/ CallMixed

Spec == Init /\ [][Next]_vars

\* ------------------------------------ the direct forms on one input
\* X = lc_dft(x)
CallLc ==
    /\ strategy = "none"
    /\ strategy' = "lc_dft"
    /\ X' = Returned(lc_dft(x))
    /\ UNCHANGED <<x, linearVars, bitVars, factorVars, machineVars>>

\* X = simplified_ft(x)
CallSimplified ==
    /\ strategy = "none"
    /\ strategy' = "simplified_ft"
    /\ X' = Returned(simplified_ft(x))
    /\ UNCHANGED <<x, linearVars, bitVars, factorVars, machineVars>>

\* X = matrix_ft(x)
CallMatrix ==
    /\ strategy = "none"
    /\ strategy' = "matrix_ft"
    /\ X' = Returned(matrix_ft(x))
    /\ UNCHANGED <<x, linearVars, bitVars, factorVars, machineVars>>

NextDirect ==
    \/ CallDirect
    \/ CallLc
    \/ CallSimplified
    \/ CallMatrix

SpecDirect == Init /\ [][NextDirect]_vars

\* ------------------------------- one transform of x, y and a*x + b*y
\* Longest input of the linearity runs; scalars are drawn from 0..MaxScalar.
MaxLinN == 6
MaxScalar == 2

\* a*s + b*t, element by element.
Combine(sa, s, sb, t) == [i \in 1..Len(s) |-> Add(Mul(sa, s[i]), Mul(sb, t[i]))]

InitLin ==
    /\ \E N \in 1..MaxLinN : x \in [1..N -> Samples] /\ y = Ramp(N)
    /\ a \in 0..MaxScalar
    /\ b \in 0..MaxScalar
    /\ strategy = "none"
    /\ X = NoResult /\ Y = NoResult /\ Z = NoResult
    /\ IdleBits /\ IdleFactor
    /\ IdleMachine

\* X = direct_ft(x); Y = direct_ft(y); Z = direct_ft(a*x + b*y)
LinDirect ==
    /\ strategy = "none"
    /\ strategy' = "direct_ft"
    /\ X' = Returned(direct_ft(x))
    /\ Y' = Returned(direct_ft(y))
    /\ Z' = Returned(direct_ft(Combine(a, x, b, y)))
    /\ UNCHANGED <<x, y, a, b, bitVars, factorVars, machineVars>>

\* X = recursive_fft(x); Y = recursive_fft(y); Z = recursive_fft(a*x + b*y)
LinRecursive ==
    /\ strategy = "none"
    /\ strategy' = "recursive_fft"
    /\ X' = Returned(recursive_fft(x))
    /\ Y' = Returned(recursive_fft(y))
    /\ Z' = Returned(recursive_fft(Combine(a, x, b, y)))
    /\ UNCHANGED <<x, y, a, b, bitVars, factorVars, machineVars>>

\* X = iterative_fft(x); Y = iterative_fft(y); Z = iterative_fft(a*x + b*y)
LinIterative ==
    /\ strategy = "none"
    /\ strategy' = "iterative_fft"
    /\ X' = iterative_fft(x)
    /\ Y' = iterative_fft(y)
    /\ Z' = iterative_fft(Combine(a, x, b, y))
    /\ UNCHANGED <<x, y, a, b, bitVars, factorVars, machineVars>>

\* X = recursive_nfft(x); Y = recursive_nfft(y); Z = recursive_nfft(a*x + b*y)
LinMixed ==
    /\ strategy = "none"
    /\ strategy' = "recursive_nfft"
    /\ X' = Returned(recursive_nfft(x))
    /\ Y' = Returned(recursive_nfft(y))
    /\ Z' = Returned(recursive_nfft(Combine(a, x, b, y)))
    /\ UNCHANGED <<x, y, a, b, bitVars, factorVars, machineVars>>

NextLin ==
    \/ LinDirect
    \/ LinRecursive
    \/ LinIterative
    \/ LinMixed

SpecLin == InitLin /\ [][NextLin]_vars

\* ---------------------------------------------------- bit_reverse runs
\* Widest bit count r of the bit_reverse runs.
MaxBits == 6

InitBits ==
    /\ r \in 0..MaxBits
    /\ k \in 0..(2 ^ r - 1)
    /\ l = NoResult
    /\ back = NoResult
    /\ IdleTransform /\ IdleLinear /\ IdleFactor
    /\ IdleMachine

\* l = bit_reverse(k, r)
Reverse ==
    /\ l.status = "none"
    /\ l' = Returned(bit_reverse(k, r))
    /\ UNCHANGED <<k, r, back, transformVars, linearVars, factorVars, machineVars>>

\* back = bit_reverse(l, r)
ReverseBack ==
    /\ l.status = "ok"
    /\ back.status = "none"
    /\ back' = Returned(bit_reverse(l.value, r))
    /\ UNCHANGED <<k, r, l, transformVars, linearVars, factorVars, machineVars>>

NextBits ==
    \/ Reverse
    \/ ReverseBack

SpecBits == InitBits /\ [][NextBits]_vars

\* ------------------------------------------------------- __factor runs
\* Largest argument of the __factor runs.
MaxFactorN == 150

InitFactor ==
    /\ n \in 1..MaxFactorN
    /\ N1 = NoResult
    /\ IdleTransform /\ IdleLinear /\ IdleBits
    /\ IdleMachine

\* N1 = __factor(n)
Factor ==
    /\ N1.status = "none"
    /\ N1' = Returned(__factor(n))
    /\ UNCHANGED <<n, transformVars, linearVars, bitVars, machineVars>>

NextFactor == Factor

SpecFactor == InitFactor /\ [][NextFactor]_vars

\* ------------------------------------------------- objects and frames
\* Longest ramp, and longest 0/1 sequence, of the step-by-step runs.
MaxRunN == 8
MaxRunSeq == 3
\* The caller repeats the call up to MaxRepeats times (time_it: REPEATS).
MaxRepeats == 2
\* The interpreter's limit on nested calls (sys.getrecursionlimit()), scaled
\* down: a call made at this depth raises RecursionError.
RecursionLimit == 8
\* Longest input of the two-thread runs.
MaxParN == 4

\* No object.
NoRef == 0

\* Mutant of NewRef: the new list takes the identity of the youngest live
\* list (one buffer shared by all constructions).
NewRef_SharesBuffer(h) ==
    CHOOSE id \in DOMAIN h : \A d \in DOMAIN h : d <= id

\* The identity of a newly constructed list: one that no live object has
\* (the least such, as the allocator reuses what was released).
NewRef(h) ==
    CHOOSE id \in 1..(Cardinality(DOMAIN h) + 1) :
        id \notin DOMAIN h /\ \A d \in 1..(id - 1) : d \in DOMAIN h

\* A list with the elements v is constructed: [ref, heap].
Alloc(h, v) ==
    [ref |-> NewRef(h),
     heap |-> [id \in DOMAIN h \cup {NewRef(h)} |-> IF id = NewRef(h) THEN v ELSE h[id]]]

\* The objects of S lose their last reference and are released.
Release(h, S) == [id \in DOMAIN h \ S |-> h[id]]

\* Mutant of ListCopy: X = x, the same list under a second name.
ListCopy_Alias(h, ref) == [ref |-> ref, heap |-> h]

\* X = [ complex(xi) for xi in x ]: a new list with the elements of x.
ListCopy(h, ref) == Alloc(h, h[ref])

\* The transforms a caller can call.
Strategies == {"direct_ft", "lc_dft", "recursive_fft", "iterative_fft", "recursive_nfft"}

NoOutcome == [status |-> "none", ref |-> NoRef]
NoCalls == [fn \in Strategies |-> 0]

\* The frame of a call fn(x): its position pc, its parameter x, its locals
\* (lists by identity), the value ret its last call returned, and own, the
\* lists only this frame refers to.
Frame(fn, ref) ==
    [fn |-> fn, pc |-> "init", x |-> ref, X |-> NoRef, Xe |-> NoRef, Xj |-> NoRef,
     ret |-> NoRef,
     own |-> {}, k |-> 0, j |-> 0, r |-> 0, l |-> 0, n |-> 0, step |-> 1, N1 |-> 0,
     W |-> 1, Wk |-> 1, Wj |-> 1, Wkn |-> 1]

\* The innermost frame of thread pr.
Top(pr) == stack[pr][Len(stack[pr])]
SetTop(st, f) == [st EXCEPT ![Len(st)] = f]

\* Thread pr is inside function fn at position pc.
Running(pr, fn, pc) ==
    /\ pr \in DOMAIN stack
    /\ stack[pr] # <<>>
    /\ Top(pr).fn = fn
    /\ Top(pr).pc = pc

\* What no step inside a call changes.
callerVars == <<transformVars, linearVars, bitVars, factorVars, setupVars>>

\* A step inside one function body: the innermost frame becomes f, the heap h.
Continue(pr, f, h) ==
    /\ stack' = [stack EXCEPT ![pr] = SetTop(@, f)]
    /\ heap' = h
    /\ UNCHANGED <<outcome, calls, runs, callerVars>>

\* An exception e that nothing catches: every frame of st is left, the lists
\* they own are released, the call ends with e and the caller calls no more.
Raise(pr, e, st, h) ==
    /\ stack' = [stack EXCEPT ![pr] = <<>>]
    /\ heap' = Release(h, UNION {st[d].own : d \in 1..Len(st)})
    /\ outcome' = [outcome EXCEPT ![pr] = [status |-> e, ref |-> NoRef]]
    /\ UNCHANGED <<calls, runs, callerVars>>

\* The innermost frame, now f, calls fn(ref).
Call(pr, f, fn, ref, h) ==
    IF Len(stack[pr]) >= RecursionLimit
    THEN Raise(pr, "RecursionError", SetTop(stack[pr], f), h)
    ELSE /\ stack' = [stack EXCEPT ![pr] = Append(SetTop(@, f), Frame(fn, ref))]
         /\ heap' = h
         /\ calls' = [calls EXCEPT ![pr][fn] = @ + 1]
         /\ UNCHANGED <<outcome, runs, callerVars>>

\* return ref: the frame is left and the lists it owns, ref excepted, are
\* released; ref passes to the calling frame or, from the outermost frame,
\* to the caller.
Return(pr, ref, h) ==
    LET st == stack[pr]
        rest == SubSeq(st, 1, Len(st) - 1)
    IN  /\ heap' = Release(h, Top(pr).own \ {ref})
        /\ IF rest = <<>>
           THEN /\ stack' = [stack EXCEPT ![pr] = <<>>]
                /\ outcome' = [outcome EXCEPT ![pr] = [status |-> "ok", ref |-> ref]]
                /\ runs' = [runs EXCEPT ![pr] = @ + 1]
           ELSE /\ stack' = [stack EXCEPT ![pr] =
                        SetTop(rest, [rest[Len(rest)] EXCEPT !.ret = ref,
                                                             !.own = @ \cup {ref}])]
                /\ UNCHANGED <<outcome, runs>>
        /\ UNCHANGED <<calls, callerVars>>

\* ----------------------------------------------- the caller (test_it, time_it)
\* f(x): the caller calls its transform on its input list; the result of the
\* call before, if it was another list than x, is dropped.
StartCall(pr) ==
    /\ pr \in DOMAIN stack
    /\ stack[pr] = <<>>
    /\ outcome[pr].status \in {"none", "ok"}
    /\ runs[pr] < repeats
    /\ stack' = [stack EXCEPT ![pr] = <<Frame(task[pr], arg[pr])>>]
    /\ heap' = Release(heap, {outcome[pr].ref} \ {arg[pr], NoRef})
    /\ outcome' = [outcome EXCEPT ![pr] = NoOutcome]
    /\ calls' = [calls EXCEPT ![pr] = [NoCalls EXCEPT ![task[pr]] = 1]]
    /\ UNCHANGED <<runs, callerVars>>

\* --------------------------------------------------- direct_ft, by steps
\* N = len(x); X = [ 0+0j ] * N; W = cm.exp(-2j*cm.pi/N); Wk = 1.
DirectInit(pr) ==
    /\ Running(pr, "direct_ft", "init")
    /\ LET f == Top(pr)
           N == Len(heap[f.x])
           m == Alloc(heap, [d \in 1..N |-> 0])
       IN  IF N = 0
           THEN Raise(pr, "ZeroDivisionError",
                      SetTop(stack[pr], [f EXCEPT !.own = {m.ref}]), m.heap)
           ELSE Continue(pr, [f EXCEPT !.pc = "loop", !.X = m.ref, !.own = {m.ref},
                                       !.k = 0, !.W = Twiddle(1, N), !.Wk = 1],
                         m.heap)

\* One pass of "for k in range(0, N)": the summation for X[k], then Wk = Wk * W.
DirectStep(pr) ==
    /\ Running(pr, "direct_ft", "loop")
    /\ LET f == Top(pr)
           s == heap[f.x]
       IN  /\ f.k < Len(s)
           /\ Continue(pr, [f EXCEPT !.k = @ + 1, !.Wk = Mul(@, f.W)],
                       [heap EXCEPT ![f.X][f.k + 1] = DirectSum(s, 0, f.Wk, 1, @)])

\* return X
DirectReturn(pr) ==
    /\ Running(pr, "direct_ft", "loop")
    /\ Top(pr).k = Len(heap[Top(pr).x])
    /\ Return(pr, Top(pr).X, heap)

\* ------------------------------------------------------ lc_dft, by steps
\* The list comprehension builds the result list and the lambda returns it.
LcReturn(pr) ==
    /\ Running(pr, "lc_dft", "init")
    /\ LET m == Alloc(heap, lc_dft(heap[Top(pr).x]))
       IN  Return(pr, m.ref, m.heap)

\* ----------------------------------------------- recursive_fft, by steps
\* if len(x) == 1: return x
RecBase(pr) ==
    /\ Running(pr, "recursive_fft", "init")
    /\ Len(heap[Top(pr).x]) = 1
    /\ Return(pr, Top(pr).x, heap)

\* else: N = len(x); Xe = recursive_fft(x[0::2]), up to the call.
RecEven(pr) ==
    /\ Running(pr, "recursive_fft", "init")
    /\ Len(heap[Top(pr).x]) # 1
    /\ LET f == Top(pr)
           m == Alloc(heap, Slice(heap[f.x], 0, 2))
       IN  Call(pr, [f EXCEPT !.pc = "odd", !.own = @ \cup {m.ref}],
                "recursive_fft", m.ref, m.heap)

\* Xe is bound to what the call returned (the slice x[0::2] is released,
\* unless it is Xe); Xo = recursive_fft(x[1::2]), up to the call.
RecOdd(pr) ==
    /\ Running(pr, "recursive_fft", "odd")
    /\ LET f == Top(pr)
           m == Alloc(Release(heap, f.own \ {f.ret}), Slice(heap[f.x], 1, 2))
       IN  Call(pr, [f EXCEPT !.pc = "combine", !.Xe = f.ret, !.own = {f.ret, m.ref}],
                "recursive_fft", m.ref, m.heap)

\* Xo is bound to what the call returned; W, WXo and X are built; return X.
RecCombine(pr) ==
    /\ Running(pr, "recursive_fft", "combine")
    /\ LET f == Top(pr)
           N == Len(heap[f.x])
           Xe == heap[f.Xe]
           Xo == heap[f.ret]
           W == [d \in 1..(N \div 2) |-> Twiddle(d - 1, N)]
           WXo == ZipMul(W, Xo)
           m == Alloc(heap, ZipAdd(Xe, WXo) \o ZipSub(Xe, WXo))
       IN  Return(pr, m.ref, m.heap)

\* ----------------------------------------------- iterative_fft, by steps
\* N = len(x); r = int(math.log2(N)); X = [ complex(xi) for xi in x ]
IterInit(pr) ==
    /\ Running(pr, "iterative_fft", "init")
    /\ LET f == Top(pr)
           N == Len(heap[f.x])
           m == ListCopy(heap, f.x)
       IN  IF N = 0
           THEN Raise(pr, "ValueError", stack[pr], heap)
           ELSE Continue(pr, [f EXCEPT !.pc = "reorder", !.X = m.ref,
                                       !.own = {m.ref},
                                       !.r = Log2Floor(N), !.k = 0],
                         m.heap)

\* One pass of "for k in range(0, N)": l = bit_reverse(k, r); X[l] = x[k].
IterReorder(pr) ==
    /\ Running(pr, "iterative_fft", "reorder")
    /\ LET f == Top(pr)
           s == heap[f.x]
       IN  /\ f.k < Len(s)
           /\ Continue(pr, [f EXCEPT !.k = @ + 1, !.l = bit_reverse(f.k, f.r)],
                       [heap EXCEPT ![f.X][bit_reverse(f.k, f.r) + 1] = s[f.k + 1]])

\* step = 1, and the loops "for k in range(0, r)", "for l in range(0, N,
\* 2*step)" and "for n in range(0, step)" are entered (none, if r = 0).
IterMerge(pr) ==
    /\ Running(pr, "iterative_fft", "reorder")
    /\ Top(pr).k = Len(heap[Top(pr).x])
    /\ Continue(pr, [Top(pr) EXCEPT !.pc = IF Top(pr).r = 0 THEN "done" ELSE "merge",
                                    !.k = 0, !.l = 0, !.n = 0, !.step = 1,
                                    !.W = Twiddle(1, 2), !.Wkn = 1],
                heap)

\* Mutant of IterAdvance: the loop over l is range(0, N, step), so the next
\* block starts inside the one before.
IterAdvance_HalfStride(f, N) ==
    IF f.n + 1 < f.step
    THEN [f EXCEPT !.n = @ + 1, !.Wkn = Mul(@, f.W)]
    ELSE IF f.l + f.step < N
    THEN [f EXCEPT !.l = @ + f.step, !.n = 0, !.Wkn = 1]
    ELSE IF f.k + 1 < f.r
    THEN [f EXCEPT !.k = @ + 1, !.step = 2 * @, !.l = 0, !.n = 0,
                   !.W = Twiddle(1, 4 * f.step), !.Wkn = 1]
    ELSE [f EXCEPT !.pc = "done", !.step = 2 * @]

\* Mutant of IterAdvance: the loop over l stops before a block that does not
\* fit, range(0, N - 2*step + 1, 2*step).
IterAdvance_WholeBlocks(f, N) ==
    IF f.n + 1 < f.step
    THEN [f EXCEPT !.n = @ + 1, !.Wkn = Mul(@, f.W)]
    ELSE IF f.l + 4 * f.step <= N
    THEN [f EXCEPT !.l = @ + 2 * f.step, !.n = 0, !.Wkn = 1]
    ELSE IF f.k + 1 < f.r
    THEN [f EXCEPT !.k = @ + 1, !.step = 2 * @, !.l = 0, !.n = 0,
                   !.W = Twiddle(1, 4 * f.step), !.Wkn = 1]
    ELSE [f EXCEPT !.pc = "done", !.step = 2 * @]

\* Mutant of IterAdvance: step keeps its value from pass to pass.
IterAdvance_NoDouble(f, N) ==
    IF f.n + 1 < f.step
    THEN [f EXCEPT !.n = @ + 1, !.Wkn = Mul(@, f.W)]
    ELSE IF f.l + 2 * f.step < N
    THEN [f EXCEPT !.l = @ + 2 * f.step, !.n = 0, !.Wkn = 1]
    ELSE IF f.k + 1 < f.r
    THEN [f EXCEPT !.k = @ + 1, !.l = 0, !.n = 0, !.Wkn = 1]
    ELSE [f EXCEPT !.pc = "done"]

\* The loop variables after one pass of the innermost loop body: the next n,
\* else the next block l, else the next pass k with step doubled, else the
\* loops are over (step is doubled after the last pass too).
IterAdvance(f, N) ==
    IF f.n + 1 < f.step
    THEN [f EXCEPT !.n = @ + 1, !.Wkn = Mul(@, f.W)]
    ELSE IF f.l + 2 * f.step < N
    THEN [f EXCEPT !.l = @ + 2 * f.step, !.n = 0, !.Wkn = 1]
    ELSE IF f.k + 1 < f.r
    THEN [f EXCEPT !.k = @ + 1, !.step = 2 * @, !.l = 0, !.n = 0,
                   !.W = Twiddle(1, 4 * f.step), !.Wkn = 1]
    ELSE [f EXCEPT !.pc = "done", !.step = 2 * @]

\* p = l + n; q = p + step; the two assignments of the butterfly (IndexError
\* if q is not an index of X); Wkn = Wkn * W.
IterButterfly(pr) ==
    /\ Running(pr, "iterative_fft", "merge")
    /\ LET f == Top(pr)
           N == Len(heap[f.x])
           p == f.l + f.n
           q == p + f.step
       IN  IF q >= Len(heap[f.X])
           THEN Raise(pr, "IndexError", stack[pr], heap)
           ELSE Continue(pr, IterAdvance(f, N),
                         [heap EXCEPT ![f.X] = Butterfly(@, p, q, f.Wkn)])

\* return X
IterReturn(pr) ==
    /\ Running(pr, "iterative_fft", "done")
    /\ Return(pr, Top(pr).X, heap)

\* ---------------------------------------------- recursive_nfft, by steps
\* N = len(x); N1 = __factor(N); if N1 == N: return direct_ft(x), up to the call.
MixedFallback(pr) ==
    /\ Running(pr, "recursive_nfft", "init")
    /\ LET f == Top(pr)
           N == Len(heap[f.x])
       IN  /\ __factor(N) = N
           /\ Call(pr, [f EXCEPT !.pc = "fallback", !.N1 = N], "direct_ft", f.x, heap)

\* What direct_ft(x) returned is returned.
MixedFallbackReturn(pr) ==
    /\ Running(pr, "recursive_nfft", "fallback")
    /\ Return(pr, Top(pr).ret, heap)

\* else: N2 = N // N1; X = [ 0+0j ] * N; W = cm.exp(-2j*cm.pi/N); Wj = 1.
MixedSplit(pr) ==
    /\ Running(pr, "recursive_nfft", "init")
    /\ LET f == Top(pr)
           N == Len(heap[f.x])
           m == Alloc(heap, [d \in 1..N |-> 0])
       IN  /\ __factor(N) # N
           /\ Continue(pr, [f EXCEPT !.pc = "phase", !.N1 = __factor(N), !.X = m.ref,
                                     !.own = {m.ref}, !.j = 0,
                                     !.W = Twiddle(1, N), !.Wj = 1],
                       m.heap)

\* One pass of "for j in range(N1)": Xj = recursive_nfft(x[j::N1]), up to the call.
MixedCall(pr) ==
    /\ Running(pr, "recursive_nfft", "phase")
    /\ LET f == Top(pr)
           m == Alloc(heap, Slice(heap[f.x], f.j, f.N1))
       IN  /\ f.j < f.N1
           /\ Call(pr, [f EXCEPT !.pc = "recombine", !.own = @ \cup {m.ref}],
                   "recursive_nfft", m.ref, m.heap)

\* Xj is bound to what the call returned (the slice x[j::N1] and the Xj of
\* the pass before are released); the loop "for k in range(N)" adds
\* Xj[k%N2] * Wkj to every X[k]; Wj = Wj * W.
MixedRecombine(pr) ==
    /\ Running(pr, "recursive_nfft", "recombine")
    /\ LET f == Top(pr)
           N == Len(heap[f.x])
           h == [heap EXCEPT ![f.X] = RecombineLoop(@, heap[f.ret], N \div f.N1, 0, f.Wj, 1)]
       IN  Continue(pr, [f EXCEPT !.pc = "phase", !.Xj = f.ret, !.j = @ + 1,
                                  !.Wj = Mul(@, f.W), !.own = {f.X, f.ret}],
                    Release(h, f.own \ {f.X, f.ret}))

\* return X
MixedReturn(pr) ==
    /\ Running(pr, "recursive_nfft", "phase")
    /\ Top(pr).j = Top(pr).N1
    /\ Return(pr, Top(pr).X, heap)

\* ------------------------------------------------------------ the runs
\* One step of one thread.
Step(pr) ==
    \/ StartCall(pr)
    \/ DirectInit(pr) \/ DirectStep(pr) \/ DirectReturn(pr)
    \/ LcReturn(pr)
    \/ RecBase(pr) \/ RecEven(pr) \/ RecOdd(pr) \/ RecCombine(pr)
    \/ IterInit(pr) \/ IterReorder(pr) \/ IterMerge(pr) \/ IterButterfly(pr)
    \/ IterReturn(pr)
    \/ MixedFallback(pr) \/ MixedFallbackReturn(pr) \/ MixedSplit(pr)
    \/ MixedCall(pr) \/ MixedRecombine(pr) \/ MixedReturn(pr)

\* The threads there can be: the caller alone, or two callers side by side.
Threads == {1, 2}

NextRun == \E pr \in Threads : Step(pr)

\* The inputs of the step-by-step runs: the ramps of test_it and time_it, the
\* empty list included, and the short 0/1 sequences.
RunInputs ==
    {Ramp(size) : size \in 0..MaxRunN} \cup {Ramp(size) : size \in TestSizes}
        \cup UNION {[1..N -> Samples] : N \in 1..MaxRunSeq}

\* One caller: x is built, then f(x) is called once (test_it) or several
\* times in a row (time_it).
InitRun ==
    /\ \E s \in RunInputs :
        /\ heap = <<s>>
        /\ orig = <<s>>
    /\ arg = <<1>>
    /\ task \in [{1} -> Strategies]
    /\ repeats \in 1..MaxRepeats
    /\ stack = <<<<>>>>
    /\ outcome = <<NoOutcome>>
    /\ calls = <<NoCalls>>
    /\ runs = <<0>>
    /\ IdleTransform /\ IdleLinear /\ IdleBits /\ IdleFactor

SpecRun == InitRun /\ [][NextRun]_vars

\* The interpreter keeps executing a call that has a next step.
FairRun == SpecRun /\ WF_vars(NextRun)

\* x + 1, element by element: a second input, different from the ramp.
Shifted(s) == [i \in 1..Len(s) |-> Add(s[i], 1)]

\* Two threads, each with an input list of its own, each calling once; their
\* steps interleave in any order.
InitPar ==
    /\ \E sa \in {Ramp(size) : size \in 1..MaxParN},
          sb \in {Shifted(Ramp(size)) : size \in 1..MaxParN} :
        /\ heap = <<sa, sb>>
        /\ orig = <<sa, sb>>
    /\ arg = <<1, 2>>
    /\ task \in [{1, 2} -> Strategies]
    /\ repeats = 1
    /\ stack = <<<<>>, <<>>>>
    /\ outcome = <<NoOutcome, NoOutcome>>
    /\ calls = <<NoCalls, NoCalls>>
    /\ runs = <<0, 0>>
    /\ IdleTransform /\ IdleLinear /\ IdleBits /\ IdleFactor

SpecPar == InitPar /\ [][NextRun]_vars

\* ------------------------------------- the variants of recursive_nfft
\* X = vec_recursive_nfft(x)  (fft_numpy)
CallVecMixed ==
    /\ strategy = "none"
    /\ strategy' = "vec_recursive_nfft"
    /\ X' = Returned(vec_recursive_nfft(x))
    /\ UNCHANGED <<x, linearVars, bitVars, factorVars, machineVars>>

\* X = vec_recursive_fft(x)  (anyfft_array)
CallVecDirect ==
    /\ strategy = "none"
    /\ strategy' = "vec_recursive_fft"
    /\ X' = Returned(vec_recursive_fft(x))
    /\ UNCHANGED <<x, linearVars, bitVars, factorVars, machineVars>>

\* The same input x, of length N >= 1, goes to recursive_nfft, which runs
\* step by step, and to one of its vectorised variants.
InitTwiddle ==
    /\ \E s \in RunInputs \ {<<>>} :
        /\ heap = <<s>>
        /\ orig = <<s>>
        /\ x = s
    /\ arg = <<1>>
    /\ task = <<"recursive_nfft">>
    /\ repeats = 1
    /\ stack = <<<<>>>>
    /\ outcome = <<NoOutcome>>
    /\ calls = <<NoCalls>>
    /\ runs = <<0>>
    /\ strategy = "none"
    /\ X = NoResult
    /\ IdleLinear /\ IdleBits /\ IdleFactor

\* One step of recursive_nfft and of the direct_ft it falls back to.
MixedStep(pr) ==
    \/ StartCall(pr)
    \/ DirectInit(pr) \/ DirectStep(pr) \/ DirectReturn(pr)
    \/ MixedFallback(pr) \/ MixedFallbackReturn(pr) \/ MixedSplit(pr)
    \/ MixedCall(pr) \/ MixedRecombine(pr) \/ MixedReturn(pr)

NextTwiddle ==
    \/ \E pr \in Threads : MixedStep(pr)
    \/ CallVecMixed
    \/ CallVecDirect

SpecTwiddle == InitTwiddle /\ [][NextTwiddle]_vars

\* ----------------------------------------------------------- claims
IsPow2(N) == N = 2 ^ Log2Floor(N)

\* The sum of s[j] * W^(c*j) for j = 0..upto-1, W = exp(-2*pi*i/N).
RECURSIVE SumOver(_, _, _)
SumOver(s, c, upto) ==
    IF upto = 0 THEN 0
    ELSE Add(SumOver(s, c, upto - 1),
             Mul(s[upto], Twiddle(c * (upto - 1), Len(s))))

\* Coefficient c of the definition: the sum of s[j] * W^(c*j), j = 0..N-1.
DFTCoefficient(s, c) == SumOver(s, c, Len(s))

\* C1: direct_ft returns, for every input of length N >= 1, a sequence of
\* length N whose element k is the sum over n of x[n] * W^(k*n), with W the
\* primitive N-th root of unity exp(-2*pi*i/N).
C1_DirectIsDefinition ==
    strategy = "direct_ft" =>
        /\ X.status = "ok"
        /\ Len(X.value) = Len(x)
        /\ \A i \in 0..(Len(x) - 1) : X.value[i + 1] = DFTCoefficient(x, i)

\* direct_ft has run on a non-constant input of composite length 6.
C1_Witness ==
    /\ strategy = "direct_ft"
    /\ Len(x) = 6
    /\ x[2] # x[1]
    /\ X.value[2] # X.value[1]

\* C2: for every input of power-of-two length, recursive_fft returns exactly
\* what direct_ft returns.
C2_RecursiveEqualsDirect ==
    (strategy = "recursive_fft" /\ IsPow2(Len(x))) =>
        X = Returned(direct_ft(x))

\* recursive_fft has run on a length-8 input and produced distinct coefficients.
C2_Witness ==
    /\ strategy = "recursive_fft"
    /\ Len(x) = 8
    /\ X.status = "ok"
    /\ X.value[2] # X.value[6]

\* C3: for every input of power-of-two length, iterative_fft returns exactly
\* what recursive_fft returns.
C3_IterativeEqualsRecursive ==
    (strategy = "iterative_fft" /\ IsPow2(Len(x))) =>
        X = Returned(recursive_fft(x))

\* iterative_fft has returned on a length-8 input with distinct coefficients.
C3_Witness ==
    /\ strategy = "iterative_fft"
    /\ Len(x) = 8
    /\ X.status = "ok"
    /\ X.value[2] # X.value[6]

\* C4: for every input of length N >= 1, composite lengths such as 6 and 12
\* included, recursive_nfft returns exactly what direct_ft returns.
C4_MixedEqualsDirect ==
    strategy = "recursive_nfft" =>
        X = Returned(direct_ft(x))

\* recursive_nfft has run on the length-12 input of main_test.py (12 = 2*2*3).
C4_Witness ==
    /\ strategy = "recursive_nfft"
    /\ x = Ramp(12)
    /\ X.status = "ok"
    /\ Len(X.value) = 12

\* The imaginary unit: exp(-2*pi*i*3/4) = i.
ImagUnit == Twiddle(3, 4)
\* The real number -2.
MinusTwo == Sub(0, 2)

\* [6+0j, -2+2j, -2+0j, -2-2j]
KnownOutput ==
    <<6, Add(MinusTwo, Mul(2, ImagUnit)), MinusTwo, Sub(MinusTwo, Mul(2, ImagUnit))>>

\* C5: on the input [0, 1, 2, 3], direct_ft returns [6+0j, -2+2j, -2+0j, -2-2j],
\* and recursive_fft and iterative_fft return the same four values.
C5_KnownSmallCase ==
    (x = Ramp(4) /\ strategy \in {"direct_ft", "recursive_fft", "iterative_fft"}) =>
        X = Returned(KnownOutput)

\* iterative_fft has returned on [0, 1, 2, 3].
C5_Witness ==
    /\ x = Ramp(4)
    /\ strategy = "iterative_fft"
    /\ X.status = "ok"
    /\ Len(X.value) = 4

\* The sum of all samples of s.
RECURSIVE SumSamples(_)
SumSamples(s) == IF s = <<>> THEN 0 ELSE Add(s[1], SumSamples(Tail(s)))

\* The radix-2 transforms document their input as a power-of-two length; the
\* direct and the mixed-radix transform take any length N >= 1.
ValidLength(fn, N) ==
    fn \in {"recursive_fft", "iterative_fft"} => IsPow2(N)

\* C6 as stated: whatever the transform and whatever the length N >= 1, the
\* call has an output and element 0 of it is the sum of all input samples.
C6_DCEveryLength ==
    strategy # "none" =>
        /\ X.status = "ok"
        /\ X.value[1] = SumSamples(x)

\* C6 amended: element 0 of the output is the sum of all input samples for
\* direct_ft, recursive_fft and recursive_nfft on every length N >= 1 and for
\* iterative_fft on every power-of-two length (on the other lengths
\* iterative_fft has no output).
C6_DCWhereReturned ==
    (strategy # "none" /\ (strategy = "iterative_fft" => IsPow2(Len(x)))) =>
        /\ X.status = "ok"
        /\ X.value[1] = SumSamples(x)

\* recursive_fft has run on a length-6 input with four nonzero samples.
C6_Witness ==
    /\ strategy = "recursive_fft"
    /\ Len(x) = 6
    /\ SumSamples(x) = 4
    /\ X.status = "ok"
    /\ X.value[1] = 4

\* C7 (under SpecLin): for every transform, every length valid for it, all
\* inputs x, y of that length and all scalars a, b, the transform of
\* a*x + b*y is a times the transform of x plus b times the transform of y.
C7_Linearity ==
    (strategy # "none" /\ ValidLength(strategy, Len(x))) =>
        /\ X.status = "ok" /\ Y.status = "ok" /\ Z.status = "ok"
        /\ Z.value = Combine(a, X.value, b, Y.value)

\* recursive_nfft has transformed x, y and 2*x + y for a nonzero x of length 6.
C7_Witness ==
    /\ strategy = "recursive_nfft"
    /\ Len(x) = 6
    /\ a = 2 /\ b = 1
    /\ SumSamples(x) > 0
    /\ Z.status = "ok"
    /\ Z.value # Y.value

\* C8: the output is as long as the input, for direct_ft and recursive_nfft
\* on every length N >= 1 and for recursive_fft and iterative_fft on every
\* power-of-two length.
C8_LengthPreserved ==
    (strategy # "none" /\ ValidLength(strategy, Len(x))) =>
        /\ X.status = "ok"
        /\ Len(X.value) = Len(x)

\* recursive_fft has returned 16 values for the length-16 input of main_test.py.
C8_Witness ==
    /\ strategy = "recursive_fft"
    /\ x = Ramp(16)
    /\ X.status = "ok"
    /\ Len(X.value) = 16

\* C9 (under SpecBits): for every r >= 1 and every k with 0 <= k < 2^r,
\* bit_reverse(bit_reverse(k, r), r) = k.
C9_BitReverseInvolution ==
    (back.status = "ok" /\ r >= 1 /\ k < 2 ^ r) => back.value = k

\* 3 = 011b has been reversed to 6 = 110b and reversed back.
C9_Witness ==
    /\ r = 3
    /\ k = 3
    /\ l = Returned(6)
    /\ back.status = "ok"

IsPrime(p) == p >= 2 /\ \A d \in 2..(p - 1) : p % d # 0

\* C10 (under SpecFactor): for n >= 2, __factor(n) is the smallest integer f
\* with 2 <= f <= n that divides n, so it is n exactly when n is prime and it
\* is always prime; __factor(1) = 1.
C10_SmallestFactor ==
    N1.status = "ok" =>
        IF n = 1 THEN N1.value = 1
        ELSE /\ 2 <= N1.value /\ N1.value <= n
             /\ n % N1.value = 0
             /\ \A d \in 2..(N1.value - 1) : n % d # 0
             /\ (N1.value = n) <=> IsPrime(n)
             /\ IsPrime(N1.value)

\* __factor(49) has returned 7 = ceil(sqrt(49)), the last divisor tried.
C10_Witness ==
    /\ n = 49
    /\ N1 = Returned(7)

\* What thread pr's last call produced, as [status, value].
Produced(pr) ==
    [status |-> outcome[pr].status,
     value |-> IF outcome[pr].ref = NoRef THEN <<>> ELSE heap[outcome[pr].ref]]

\* What the transform fn produces on the sequence s (of length N >= 1) when
\* nothing else runs.
Expected(fn, s) ==
    CASE fn = "direct_ft" -> Returned(direct_ft(s))
      [] fn = "lc_dft" -> Returned(lc_dft(s))
      [] fn = "recursive_fft" -> Returned(recursive_fft(s))
      [] fn = "iterative_fft" -> iterative_fft(s)
      [] fn = "recursive_nfft" -> Returned(recursive_nfft(s))

\* Thread pr's call has ended.
Done(pr) == stack[pr] = <<>> /\ outcome[pr].status # "none"

\* The step-by-step run of a call ends as the function does.
RunsAsFunction ==
    \A pr \in DOMAIN stack :
        (Done(pr) /\ Len(orig[pr]) >= 1) => Produced(pr) = Expected(task[pr], orig[pr])

\* C16: on every length N >= 3 that is not a power of two, recursive_fft and
\* iterative_fft either end in IndexError or return a sequence that differs
\* from direct_ft(x); they never return the transform, and the only failure
\* is the index error (there is no rejection of the length as such).
C16_Radix2OffPrecondition ==
    (strategy \in {"recursive_fft", "iterative_fft"}
        /\ Len(x) >= 3 /\ ~IsPow2(Len(x))) =>
        /\ X.status \in {"ok", "IndexError"}
        /\ X.status = "ok" => X.value # direct_ft(x)

\* Both outcomes happen on length 6: iterative_fft has ended in IndexError,
\* or recursive_fft has returned four values for six samples.
C16_Witness ==
    /\ Len(x) = 6
    /\ \/ strategy = "iterative_fft" /\ X.status = "IndexError"
       \/ strategy = "recursive_fft" /\ X.status = "ok" /\ Len(X.value) = 4

\* The length of thread pr's input.
InputLen(pr) == Len(orig[pr])

\* C11 (under SpecRun): when the input length is prime or 1, recursive_nfft
\* makes no call of itself, calls direct_ft once and only on the caller's
\* whole input list, and returns what direct_ft returned: exactly
\* direct_ft(x).
C11_PrimeFallback ==
    \A pr \in DOMAIN stack :
        (task[pr] = "recursive_nfft" /\ (IsPrime(InputLen(pr)) \/ InputLen(pr) = 1)) =>
            /\ calls[pr]["recursive_nfft"] <= 1
            /\ calls[pr]["direct_ft"] <= 1
            /\ \A d \in 1..Len(stack[pr]) :
                   stack[pr][d].fn = "direct_ft" => stack[pr][d].x = arg[pr]
            /\ Running(pr, "recursive_nfft", "fallback") =>
                   heap[Top(pr).ret] = direct_ft(orig[pr])
            /\ Done(pr) =>
                   /\ calls[pr]["recursive_nfft"] = 1
                   /\ calls[pr]["direct_ft"] = 1
                   /\ Produced(pr) = Returned(direct_ft(orig[pr]))

\* recursive_nfft has returned on a length-7 input after one call of direct_ft.
C11_Witness ==
    /\ task[1] = "recursive_nfft"
    /\ InputLen(1) = 7
    /\ Done(1)
    /\ calls[1]["direct_ft"] = 1
    /\ Len(heap[outcome[1].ref]) = 7

\* C12 (under SpecRun): at every moment of every call of every transform, and
\* so after it and at the start of the next call of time_it, the caller's
\* input list is live and holds the elements it held before the first call.
C12_InputReadOnly ==
    \A pr \in DOMAIN stack :
        /\ arg[pr] \in DOMAIN heap
        /\ heap[arg[pr]] = orig[pr]

\* iterative_fft has returned twice on the length-8 ramp, with an output that
\* differs from the input.
C12_Witness ==
    /\ task[1] = "iterative_fft"
    /\ orig[1] = Ramp(8)
    /\ runs[1] = 2
    /\ outcome[1].status = "ok"
    /\ heap[outcome[1].ref] # orig[1]

\* C13 (under SpecRun) as stated: for every transform and every length
\* N >= 1, N = 1 included, the returned list is not the caller's input list.
C13_FreshOutput ==
    \A pr \in DOMAIN stack :
        (outcome[pr].status = "ok" /\ InputLen(pr) >= 1) => outcome[pr].ref # arg[pr]

\* The transform has its documented input: N >= 1, and a power of two for the
\* radix-2 transforms.
ValidInput(pr) == InputLen(pr) >= 1 /\ ValidLength(task[pr], InputLen(pr))

\* Every call the caller makes has returned.
Finished(pr) ==
    /\ stack[pr] = <<>>
    /\ outcome[pr].status = "ok"
    /\ runs[pr] = repeats

\* A step in which a function calls itself passes a list strictly shorter
\* than its own parameter.
ShorterCalls ==
    \A pr \in DOMAIN stack :
        (/\ InputLen(pr) >= 1
         /\ stack[pr] # <<>>
         /\ Len(stack'[pr]) = Len(stack[pr]) + 1
         /\ stack'[pr][Len(stack'[pr])].fn = Top(pr).fn) =>
            Len(heap'[stack'[pr][Len(stack'[pr])].x]) < Len(heap[Top(pr).x])

\* C14 (under FairRun): on every valid input (direct_ft and recursive_nfft
\* for every N >= 1, recursive_fft and iterative_fft for every power-of-two
\* N >= 1) every call returns, and every recursive call is made on a strictly
\* shorter list.
C14_Termination ==
    /\ <>[](\A pr \in DOMAIN stack : ValidInput(pr) => Finished(pr))
    /\ [][ShorterCalls]_vars

\* recursive_nfft has returned for the second time on the length-12 ramp.
C14_Witness ==
    /\ task[1] = "recursive_nfft"
    /\ orig[1] = Ramp(12)
    /\ repeats = 2
    /\ Finished(1)

\* The smallest divisor d >= 2 of c >= 2.
SmallestDivisor(c) ==
    CHOOSE d \in 2..c : c % d = 0 /\ \A e \in 2..(d - 1) : c % e # 0

\* The number of prime factors of c, counted with multiplicity.
RECURSIVE PrimeFactors(_)
PrimeFactors(c) == IF c < 2 THEN 0 ELSE 1 + PrimeFactors(c \div SmallestDivisor(c))

\* The number of calls of fn in progress that were made by fn itself: its
\* frames, without the frame of the caller's call.
Nested(pr, fn) ==
    Cardinality({d \in 2..Len(stack[pr]) : stack[pr][d].fn = fn})

\* C15 (under SpecRun): at every moment of a call, the recursive calls in
\* progress (not counting the caller's call) are at most log2(N) for
\* recursive_fft on a power-of-two N, and at most the number of prime factors
\* of N, with multiplicity, for recursive_nfft on N >= 2.
C15_RecursionDepth ==
    \A pr \in DOMAIN stack :
        /\ (task[pr] = "recursive_fft" /\ InputLen(pr) >= 1 /\ IsPow2(InputLen(pr))) =>
               Nested(pr, "recursive_fft") <= Log2Floor(InputLen(pr))
        /\ (task[pr] = "recursive_nfft" /\ InputLen(pr) >= 2) =>
               Nested(pr, "recursive_nfft") <= PrimeFactors(InputLen(pr))

\* recursive_fft on a length-8 input is at a leaf: three recursive calls are
\* in progress, log2(8) of them.
C15_Witness ==
    /\ task[1] = "recursive_fft"
    /\ InputLen(1) = 8
    /\ Nested(1, "recursive_fft") = 3
    /\ Len(heap[Top(1).x]) = 1

\* C17 (under SpecRun) as stated: on the empty list no transform returns a
\* result; every call ends with an error.
C17_EmptyRejected ==
    \A pr \in DOMAIN stack :
        (InputLen(pr) = 0 /\ outcome[pr].status # "none") => outcome[pr].status # "ok"

\* The lists a frame refers to.
FrameRefs(f) == ({f.x, f.X, f.Xe, f.Xj, f.ret} \ {NoRef}) \cup f.own

\* The lists thread pr can reach: its input, its result, and what its frames
\* refer to.
Refs(pr) ==
    {arg[pr]} \cup ({outcome[pr].ref} \ {NoRef})
        \cup UNION {FrameRefs(stack[pr][d]) : d \in 1..Len(stack[pr])}

\* C18 (under SpecPar): with the steps of two calls on two input lists
\* interleaved in any order, no list is reachable from both threads, every
\* list a thread refers to is live, and each call ends as its transform ends
\* when nothing else runs.
C18_Independent ==
    /\ Refs(1) \cap Refs(2) = {}
    /\ \A pr \in DOMAIN stack :
        /\ Refs(pr) \subseteq DOMAIN heap
        /\ Done(pr) => Produced(pr) = Expected(task[pr], orig[pr])

\* Both calls are in progress at once, each with an output buffer that holds
\* a nonzero value already.
C18_Witness ==
    /\ DOMAIN stack = {1, 2}
    /\ stack[1] # <<>> /\ stack[2] # <<>>
    /\ Top(1).X # NoRef /\ Top(2).X # NoRef
    /\ \E d \in 1..Len(heap[Top(1).X]) : heap[Top(1).X][d] # 0
    /\ \E d \in 1..Len(heap[Top(2).X]) : heap[Top(2).X][d] # 0

\* A butterfly step of thread pr: before and after it, iterative_fft is in
\* its merge loops or just through with them.
ButterflyStep(pr) ==
    /\ Running(pr, "iterative_fft", "merge")
    /\ stack'[pr] # stack[pr]
    /\ stack'[pr] # <<>>

\* C20 (under SpecRun): the two assignments of a butterfly of iterative_fft
\* leave X[p] = P + Wkn*Q and X[q] = P - Wkn*Q, P and Q being X[p] and X[q]
\* before them, for every p, q = p + step and Wkn the loops produce; no other
\* element of X and no other list changes.
C20_InPlaceButterfly ==
    [][\A pr \in DOMAIN stack :
        ButterflyStep(pr) =>
            LET f == Top(pr)
                p == f.l + f.n
                q == p + f.step
                before == heap[f.X]
                after == heap'[f.X]
            IN  /\ after[p + 1] = Add(before[p + 1], Mul(f.Wkn, before[q + 1]))
                /\ after[q + 1] = Sub(before[p + 1], Mul(f.Wkn, before[q + 1]))
                /\ Len(after) = Len(before)
                /\ \A d \in 1..Len(before) : d \notin {p + 1, q + 1} => after[d] = before[d]
                /\ DOMAIN heap' = DOMAIN heap
                /\ \A id \in DOMAIN heap : id # f.X => heap'[id] = heap[id]]_vars

\* In the last pass over a length-8 input the third butterfly of the block
\* is next: two butterflies with twiddles 1 and W have acted, Wkn = W^2.
C20_Witness ==
    /\ Running(1, "iterative_fft", "merge")
    /\ InputLen(1) = 8
    /\ Top(1).step = 4
    /\ Top(1).n = 2
    /\ Top(1).Wkn = Twiddle(2, 8)
    /\ heap[Top(1).X] # orig[1]

\* The slots of X the reordering loop of frame f has written so far.
Written(f) == {bit_reverse(d, f.r) : d \in 0..(f.k - 1)}

\* C21 (under SpecRun): on a power-of-two length N = 2^r the reordering loop
\* of iterative_fft writes a slot of 0..N-1 that no earlier pass wrote, so
\* k -> bit_reverse(k, r) is a bijection on 0..N-1; the slots not yet written
\* hold the initial copy, and when the loop is over X[bit_reverse(k, r)] =
\* x[k] for every k.
C21_ReorderPermutation ==
    \A pr \in DOMAIN stack :
        (Running(pr, "iterative_fft", "reorder") /\ IsPow2(InputLen(pr))) =>
            LET f == Top(pr)
                N == InputLen(pr)
            IN  /\ 2 ^ f.r = N
                /\ Written(f) \subseteq 0..(N - 1)
                /\ Cardinality(Written(f)) = f.k
                /\ Len(heap[f.X]) = N
                /\ \A d \in 0..(f.k - 1) : heap[f.X][bit_reverse(d, f.r) + 1] = orig[pr][d + 1]
                /\ \A d \in 0..(N - 1) : d \notin Written(f) => heap[f.X][d + 1] = orig[pr][d + 1]
                /\ f.k = N => Written(f) = 0..(N - 1)

\* The reordering loop is over on the length-8 ramp: slot 1 holds x[4] and
\* slot 3 holds x[6].
C21_Witness ==
    /\ Running(1, "iterative_fft", "reorder")
    /\ orig[1] = Ramp(8)
    /\ Top(1).k = 8
    /\ heap[Top(1).X][2] = 4
    /\ heap[Top(1).X][4] = 6

\* The calls of recursive_fft in progress below the innermost one, read as a
\* binary number: the digit of a frame is 0 while its call on the even
\* samples runs and 1 while its call on the odd samples runs, the outermost
\* frame's digit first.  At a base case this is the number of base cases
\* reached before it.
RECURSIVE LeafNumber(_, _)
LeafNumber(st, d) ==
    IF d = 0 THEN 0
    ELSE (IF st[d].pc = "combine" THEN 1 ELSE 0) + 2 * LeafNumber(st, d - 1)

\* The frames of st whose call on the odd samples runs.
OddTurns(st) == {d \in 1..(Len(st) - 1) : st[d].pc = "combine"}

\* C22 (under SpecRun): on a power-of-two length N = 2^r, the base case that
\* recursive_fft reaches as number i (i = 0..N-1, the even half before the odd
\* half at every level) is called on the one sample x[bit_reverse(i, r)], which
\* is element i of the buffer iterative_fft builds before its first merge
\* pass.  A base case at number i is reached after r + 1 + 2*i calls less one
\* for every odd turn on its path, which ties i to the calls made so far.
C22_LeafOrder ==
    \A pr \in DOMAIN stack :
        (/\ task[pr] = "recursive_fft"
         /\ IsPow2(InputLen(pr))
         /\ Running(pr, "recursive_fft", "init")
         /\ Len(heap[Top(pr).x]) = 1) =>
            LET r0 == Log2Floor(InputLen(pr))
                i == LeafNumber(stack[pr], Len(stack[pr]) - 1)
            IN  /\ Len(stack[pr]) = r0 + 1
                /\ i \in 0..(InputLen(pr) - 1)
                /\ calls[pr]["recursive_fft"] =
                       r0 + 1 + 2 * i - Cardinality(OddTurns(stack[pr]))
                /\ heap[Top(pr).x] = <<orig[pr][bit_reverse(i, r0) + 1]>>
                /\ heap[Top(pr).x] = <<Reorder(orig[pr], orig[pr], 0, r0)[i + 1]>>

\* On the length-8 ramp the base case number 3 is reached: it is called on
\* x[6], after the base cases on x[0], x[4] and x[2].
C22_Witness ==
    /\ task[1] = "recursive_fft"
    /\ orig[1] = Ramp(8)
    /\ Running(1, "recursive_fft", "init")
    /\ LeafNumber(stack[1], Len(stack[1]) - 1) = 3
    /\ heap[Top(1).x] = <<6>>

\* The transform of s by the definition.
DFT(s) == [c \in 1..Len(s) |-> DFTCoefficient(s, c - 1)]

\* The samples the reordering loop placed in the slots start..start+size-1 of
\* the buffer R (size = 2^bits), in the order of their indices in the input.
PlacedSamples(R, start, size, bits) ==
    [j \in 1..size |-> R[start + bit_reverse(j - 1, bits) + 1]]

\* The slots start..start+size-1 of buf.
Block(buf, start, size) == SubSeq(buf, start + 1, start + size)

\* C23 (under SpecRun): in the merge loops of iterative_fft on N = 2^r, pass
\* k (k = 0..r-1) runs with step = 2^k on blocks that start at multiples of
\* 2*step; between two blocks, every block of 2*step slots the pass has done
\* holds the DFT of the samples placed in it, and every block of step slots
\* it has not reached holds the DFT of its samples from the pass before (so
\* after pass k every aligned block of 2^(k+1) slots is a DFT); when the last
\* pass has ended, r passes have run, step = N and the buffer is the DFT of x.
C23_MergePasses ==
    \A pr \in DOMAIN stack :
        (/\ task[pr] = "iterative_fft"
         /\ IsPow2(InputLen(pr))
         /\ stack[pr] # <<>>
         /\ Top(pr).pc \in {"merge", "done"}) =>
            LET f == Top(pr)
                N == InputLen(pr)
                R == Reorder(orig[pr], orig[pr], 0, f.r)
                buf == heap[f.X]
            IN  /\ 2 ^ f.r = N
                /\ f.pc = "merge" =>
                       /\ f.k \in 0..(f.r - 1)
                       /\ f.step = 2 ^ f.k
                       /\ f.l \in 0..(N - 1) /\ f.l % (2 * f.step) = 0
                       /\ f.n \in 0..(f.step - 1)
                /\ (f.pc = "merge" /\ f.n = 0) =>
                       \A start \in 0..(N - 1) :
                           /\ (start % (2 * f.step) = 0 /\ start < f.l) =>
                                  Block(buf, start, 2 * f.step) =
                                      DFT(PlacedSamples(R, start, 2 * f.step, f.k + 1))
                           /\ (start % f.step = 0 /\ start >= f.l) =>
                                  Block(buf, start, f.step) =
                                      DFT(PlacedSamples(R, start, f.step, f.k))
                /\ f.pc = "done" =>
                       /\ f.step = N
                       /\ f.r > 0 => f.k = f.r - 1
                       /\ buf = DFT(orig[pr])

\* On the length-8 ramp pass 1 has ended and pass 2 is about to start: the
\* two blocks of four slots are the DFTs of x[0], x[2], x[4], x[6] and of
\* x[1], x[3], x[5], x[7].
C23_Witness ==
    /\ Running(1, "iterative_fft", "merge")
    /\ orig[1] = Ramp(8)
    /\ Top(1).k = 2 /\ Top(1).l = 0 /\ Top(1).n = 0
    /\ Top(1).step = 4
    /\ Block(heap[Top(1).X], 0, 4) = DFT(<<0, 2, 4, 6>>)
    /\ Block(heap[Top(1).X], 4, 4) = DFT(<<1, 3, 5, 7>>)

\* The index pairs (p, q) of one pass over N slots: l in range(0, N, 2*step),
\* n in range(0, step), p = l + n, q = p + step.
PassPairs(N, step) ==
    {<<s + d, s + d + step>> : s \in {e \in 0..(N - 1) : e % (2 * step) = 0},
                               d \in 0..(step - 1)}

\* The butterflies frame f has done before the one it is at: N/2 in every
\* pass that has ended, step in every block of this pass that has ended, and
\* n in this block.
ButterfliesDone(f, N) == f.k * (N \div 2) + (f.l \div 2) + f.n

\* At every butterfly: 0 <= p < q = p + step < N, (p, q) is a pair of the
\* pass, and every index belongs to exactly one pair of the pass.
SafeIndices(pr) ==
    (/\ task[pr] = "iterative_fft"
     /\ IsPow2(InputLen(pr))
     /\ Running(pr, "iterative_fft", "merge")) =>
        LET f == Top(pr)
            N == InputLen(pr)
            p == f.l + f.n
            q == p + f.step
        IN  /\ Len(heap[f.X]) = N
            /\ 0 <= p /\ p < q /\ q < N
            /\ <<p, q>> \in PassPairs(N, f.step)
            /\ Cardinality(PassPairs(N, f.step)) = N \div 2
            /\ \A d \in 0..(N - 1) :
                   Cardinality({pq \in PassPairs(N, f.step) : d \in {pq[1], pq[2]}}) = 1
            /\ ButterfliesDone(f, N) \in 0..((N \div 2) * f.r - 1)

\* The first butterfly is number 0, every butterfly but the last is followed
\* by the one with the next number, and the last is number (N/2)*r - 1; with
\* r = 0 the loops are left without a butterfly.
CountedButterflies(pr) ==
    (/\ task[pr] = "iterative_fft"
     /\ IsPow2(InputLen(pr))
     /\ stack[pr] # <<>>
     /\ stack'[pr] # <<>>
     /\ stack'[pr] # stack[pr]) =>
        LET f == Top(pr)
            g == stack'[pr][Len(stack'[pr])]
            N == InputLen(pr)
        IN  /\ (f.pc = "reorder" /\ g.pc = "merge") => ButterfliesDone(g, N) = 0
            /\ (f.pc = "reorder" /\ g.pc = "done") => (N \div 2) * Log2Floor(N) = 0
            /\ (f.pc = "merge" /\ g.pc = "merge") =>
                   ButterfliesDone(g, N) = ButterfliesDone(f, N) + 1
            /\ (f.pc = "merge" /\ g.pc = "done") =>
                   ButterfliesDone(f, N) + 1 = (N \div 2) * Log2Floor(N)

\* C24 (under SpecRun): in iterative_fft on a power-of-two N >= 1 every
\* butterfly has 0 <= p < q = p + step < N, within one pass every index of
\* 0..N-1 belongs to exactly one pair (p, q), and the call does exactly
\* (N/2) * log2(N) butterflies.
C24_IndexSafety ==
    /\ [](\A pr \in DOMAIN stack : SafeIndices(pr))
    /\ [][\A pr \in DOMAIN stack : CountedButterflies(pr)]_vars

\* On the length-16 ramp the last butterfly is next: it is number 31, with
\* p = 7 and q = 15.
C24_Witness ==
    /\ Running(1, "iterative_fft", "merge")
    /\ orig[1] = Ramp(16)
    /\ ButterfliesDone(Top(1), 16) = 31
    /\ Top(1).l + Top(1).n = 7
    /\ Top(1).l + Top(1).n + Top(1).step = 15

\* The indices 0..N-1 as a list, and the indices its slice [j::N1] picks.
Indices(N) == [i \in 1..N |-> i - 1]
PickedBy(N, j, step) == {Slice(Indices(N), j, step)[i] : i \in 1..Len(Slice(Indices(N), j, step))}

\* N has a divisor between 1 and N.
Composite(N) == \E d \in 2..(N - 1) : N % d = 0

\* Frame d of thread pr is a call of recursive_nfft past its test of N1.
Splitting(pr, d) ==
    /\ stack[pr][d].fn = "recursive_nfft"
    /\ stack[pr][d].pc \in {"phase", "recombine"}

\* In a call of recursive_nfft on a composite length N (at any depth):
\* N1 is the smallest divisor of N and N = N1 * N2; the slices [j::N1],
\* j = 0..N1-1, pick N2 indices each and every index of 0..N-1 exactly once;
\* the call in progress for phase j has the list x[j], x[j+N1], x[j+2*N1],
\* ... of length N2 as its parameter, and what it returned has length N2, so
\* k % N2 is one of its indices for every k of 0..N-1.
Decomposed(pr) ==
    /\ \A d \in 1..Len(stack[pr]) :
        (stack[pr][d].fn = "recursive_nfft" /\ stack[pr][d].pc = "fallback") =>
            ~Composite(Len(heap[stack[pr][d].x]))
    /\ \A d \in 1..Len(stack[pr]) :
        Splitting(pr, d) =>
            LET f == stack[pr][d]
                s == heap[f.x]
                N == Len(s)
                N2 == N \div f.N1
            IN  /\ Composite(N)
                /\ f.N1 = SmallestDivisor(N)
                /\ f.N1 * N2 = N
                /\ f.j \in 0..f.N1
                /\ f.pc = "recombine" => f.j < f.N1
                /\ \A jj \in 0..(f.N1 - 1) : Cardinality(PickedBy(N, jj, f.N1)) = N2
                /\ \A c \in 0..(N - 1) :
                       Cardinality({jj \in 0..(f.N1 - 1) : c \in PickedBy(N, jj, f.N1)}) = 1
                /\ (f.pc = "recombine" /\ d < Len(stack[pr])) =>
                       /\ stack[pr][d + 1].fn = "recursive_nfft"
                       /\ heap[stack[pr][d + 1].x] =
                              [i \in 1..N2 |-> s[f.j + (i - 1) * f.N1 + 1]]
                /\ (f.pc = "recombine" /\ d = Len(stack[pr])) =>
                       /\ Len(heap[f.ret]) = N2
                       /\ \A c \in 0..(N - 1) : (c % N2) + 1 \in DOMAIN heap[f.ret]

\* The steps of a call of recursive_nfft on a composite length: phase 0 is
\* first, a call is made only for a phase j < N1, the recombination that
\* follows it leads to phase j + 1, and the call returns from phase N1: it has
\* made N1 calls of recursive_nfft.
PhaseByPhase(pr) ==
    (/\ stack[pr] # <<>>
     /\ Top(pr).fn = "recursive_nfft"
     /\ stack'[pr] # stack[pr]
     /\ outcome'[pr].status \in {"none", "ok"}) =>
        LET f == Top(pr)
            d == Len(stack[pr])
        IN  /\ (f.pc = "init" /\ Len(stack'[pr]) = d /\ stack'[pr][d].pc = "phase") =>
                   stack'[pr][d].j = 0
            /\ (f.pc = "phase" /\ Len(stack'[pr]) = d + 1) =>
                   /\ f.j < f.N1
                   /\ stack'[pr][d].j = f.j
                   /\ stack'[pr][d + 1].fn = "recursive_nfft"
                   /\ calls'[pr]["recursive_nfft"] = calls[pr]["recursive_nfft"] + 1
            /\ f.pc = "recombine" =>
                   /\ Len(stack'[pr]) = d
                   /\ stack'[pr][d].pc = "phase"
                   /\ stack'[pr][d].j = f.j + 1
            /\ (f.pc = "phase" /\ Len(stack'[pr]) = d - 1) => f.j = f.N1

\* C25 (under SpecRun): on every composite N, with N1 = __factor(N) and
\* N2 = N / N1, recursive_nfft makes exactly N1 calls of itself, call j
\* (j = 0..N1-1) on the list x[j], x[j+N1], x[j+2*N1], ... of length N2;
\* the N1 lists hold every input index exactly once; every Xj returned has
\* length N2, so Xj[k % N2] exists for every k of 0..N-1.
C25_Decomposition ==
    /\ [](\A pr \in DOMAIN stack : Decomposed(pr))
    /\ [][\A pr \in DOMAIN stack : PhaseByPhase(pr)]_vars

\* On the length-12 ramp the outer call is in its second phase and the call
\* on x[1::2] is in its second: the innermost call is on the three samples
\* x[3], x[7] and x[11].
C25_Witness ==
    /\ task[1] = "recursive_nfft"
    /\ orig[1] = Ramp(12)
    /\ Len(stack[1]) = 3
    /\ stack[1][1].pc = "recombine" /\ stack[1][1].j = 1 /\ stack[1][1].N1 = 2
    /\ stack[1][2].pc = "recombine" /\ stack[1][2].j = 1 /\ stack[1][2].N1 = 2
    /\ heap[stack[1][3].x] = <<3, 7, 11>>

\* In every call of recursive_nfft past its test of N1, W = e^(-2*pi*i/N) for
\* the length N of its own parameter and Wj = W^j.
PhaseTwiddles(pr) ==
    \A d \in 1..Len(stack[pr]) :
        Splitting(pr, d) =>
            LET f == stack[pr][d]
                N == Len(heap[f.x])
            IN  /\ f.W = Twiddle(1, N)
                /\ f.Wj = Pow(f.W, f.j)
                /\ f.Wj = Twiddle(f.j, N)

\* The recombination of phase j adds Xj[k % N2] * W^(j*k) to every X[k]
\* (Wkj starts at 1 for k = 0 and runs through the powers of Wj).
RunningProduct(pr) ==
    (/\ Running(pr, "recursive_nfft", "recombine")
     /\ stack'[pr] # stack[pr]
     /\ stack'[pr] # <<>>) =>
        LET f == Top(pr)
            N == Len(heap[f.x])
            N2 == N \div f.N1
            Xj == heap[f.ret]
        IN  /\ Len(heap'[f.X]) = N
            /\ \A c \in 0..(N - 1) :
                   heap'[f.X][c + 1] =
                       Add(heap[f.X][c + 1],
                           Mul(Xj[(c % N2) + 1], Pow(Twiddle(1, N), f.j * c)))

\* C26 (under SpecTwiddle): in recursive_nfft, Wj = W^j at the start of phase
\* j and the value added to X[k] in phase j is Xj[k % N2] * W^(j*k), with
\* W = e^(-2*pi*i/N); and for every N >= 1 what recursive_nfft returns is
\* what vec_recursive_nfft (running products over j, one per k) and
\* vec_recursive_fft (W^(k*j) computed directly) return on the same input.
C26_TwiddleBookkeeping ==
    /\ [](\A pr \in DOMAIN stack : PhaseTwiddles(pr))
    /\ [][\A pr \in DOMAIN stack : RunningProduct(pr)]_vars
    /\ []((Done(1) /\ strategy \in {"vec_recursive_nfft", "vec_recursive_fft"}) =>
             /\ X.status = "ok"
             /\ Produced(1) = X)

\* On the length-12 ramp recursive_nfft is in its second phase (Wj = W, not
\* 1) with the transform of x[1::2] at hand, and vec_recursive_fft has
\* returned the transform of the ramp.
C26_Witness ==
    /\ orig[1] = Ramp(12)
    /\ Running(1, "recursive_nfft", "recombine")
    /\ Len(stack[1]) = 1
    /\ Top(1).j = 1
    /\ Top(1).Wj = Twiddle(1, 12)
    /\ Len(heap[Top(1).ret]) = 6
    /\ strategy = "vec_recursive_fft"
    /\ X = Returned(DFT(Ramp(12)))

\* The length of the parameter of frame d of thread pr.
ParamLen(pr, d) == Len(heap[stack[pr][d].x])

\* In recursive_fft on a power-of-two N every call in progress is on a list
\* of power-of-two length N / 2^(depth), never on an empty one.
Radix2Frames(pr) ==
    (task[pr] = "recursive_fft" /\ IsPow2(InputLen(pr))) =>
        \A d \in 1..Len(stack[pr]) :
            /\ stack[pr][d].fn = "recursive_fft"
            /\ ParamLen(pr, d) * 2 ^ (d - 1) = InputLen(pr)

\* In recursive_nfft on N >= 2 every direct_ft in progress is on a list of
\* prime length, and no call is on a list of length 1; on N = 1 the one
\* call of direct_ft is on the list of length 1.
MixedFrames(pr) ==
    (task[pr] = "recursive_nfft" /\ InputLen(pr) >= 1) =>
        \A d \in 1..Len(stack[pr]) :
            /\ stack[pr][d].fn = "direct_ft" =>
                   /\ d >= 2
                   /\ stack[pr][d - 1].fn = "recursive_nfft"
                   /\ InputLen(pr) >= 2 => IsPrime(ParamLen(pr, d))
            /\ ParamLen(pr, d) >= 1
            /\ ParamLen(pr, d) = 1 => InputLen(pr) = 1

\* A call of recursive_fft that returns without a call of its own (a base
\* case) is on a list of length 1, and on a power-of-two N no call ends in an
\* exception.
BaseCaseReturn(pr) ==
    (/\ task[pr] = "recursive_fft"
     /\ IsPow2(InputLen(pr))
     /\ stack[pr] # <<>>
     /\ stack'[pr] # stack[pr]) =>
        /\ outcome'[pr].status \in {"none", "ok"}
        /\ (Top(pr).pc = "init" /\ Len(stack'[pr]) < Len(stack[pr])) =>
               ParamLen(pr, Len(stack[pr])) = 1

\* C27 (under SpecRun): every base case recursive_fft reaches on a
\* power-of-two N is a list of length 1; every call of direct_ft that
\* recursive_nfft makes on N >= 2 is on a list of prime length, and a list of
\* length 1 is met in recursive_nfft only when N = 1.
C27_TerminalStates ==
    /\ [](\A pr \in DOMAIN stack : Radix2Frames(pr) /\ MixedFrames(pr))
    /\ [][\A pr \in DOMAIN stack : BaseCaseReturn(pr)]_vars

\* recursive_nfft on the length-12 ramp has reached direct_ft on the three
\* samples x[3], x[7], x[11], two calls of itself below the caller's.
C27_Witness ==
    /\ task[1] = "recursive_nfft"
    /\ orig[1] = Ramp(12)
    /\ Len(stack[1]) = 4
    /\ Top(1).fn = "direct_ft"
    /\ heap[Top(1).x] = <<3, 7, 11>>

\* C28 (under SpecDirect): for every input of length N >= 1, direct_ft
\* (running products Wk, Wkn), lc_dft (one exponential per term),
\* simplified_ft (W ** (k*n)) and matrix_ft (kernel matrix times x) return
\* the same sequence, the one direct_ft returns.
C28_DirectFormsAgree ==
    strategy \in {"direct_ft", "lc_dft", "simplified_ft", "matrix_ft"} =>
        /\ X.status = "ok"
        /\ Len(X.value) = Len(x)
        /\ X.value = direct_ft(x)

\* matrix_ft has returned the transform of the length-12 ramp, whose
\* coefficient 0 is the sum of the samples, 66.
C28_Witness ==
    /\ strategy = "matrix_ft"
    /\ x = Ramp(12)
    /\ X.status = "ok"
    /\ X.value[1] = 66
    /\ X.value # x

\* Thread pr calls iterative_fft on a length N >= 3 that is no power of two.
BadLength(pr) ==
    /\ task[pr] = "iterative_fft"
    /\ InputLen(pr) >= 3
    /\ ~IsPow2(InputLen(pr))

\* The step in which the call of thread pr ends in an exception is a butterfly
\* of a merge pass, with r = floor(log2(N)), p inside the buffer and
\* q = p + step >= N; on an odd N it is in the first pass.
FailsAtButterfly(pr) ==
    (BadLength(pr) /\ outcome[pr].status = "none" /\ outcome'[pr].status # "none") =>
        /\ Running(pr, "iterative_fft", "merge")
        /\ outcome'[pr].status = "IndexError"
        /\ Top(pr).r = Log2Floor(InputLen(pr))
        /\ Top(pr).step = 2 ^ Top(pr).k
        /\ Top(pr).l + Top(pr).n < InputLen(pr)
        /\ Top(pr).l + Top(pr).n + Top(pr).step >= InputLen(pr)
        /\ InputLen(pr) % 2 = 1 => Top(pr).k = 0

\* C29 (under FairRun): on every N >= 3 that is no power of two iterative_fft
\* never returns: the call ends, and ends in IndexError, raised by a butterfly
\* whose q = p + step is >= N, in the first merge pass when N is odd.
C29_BadLengthFails ==
    /\ [](\A pr \in DOMAIN stack : BadLength(pr) => outcome[pr].status \in {"none", "IndexError"})
    /\ [][\A pr \in DOMAIN stack : FailsAtButterfly(pr)]_vars
    /\ <>[](\A pr \in DOMAIN stack :
               BadLength(pr) => (stack[pr] = <<>> /\ outcome[pr].status = "IndexError"))

\* iterative_fft has ended in IndexError on the length-6 ramp, in a call that
\* was to be the first of two.
C29_Witness ==
    /\ task[1] = "iterative_fft"
    /\ orig[1] = Ramp(6)
    /\ repeats = 2
    /\ stack[1] = <<>>
    /\ outcome[1].status = "IndexError"
    /\ runs[1] = 0

\* The largest power of two that is <= N, for N >= 1.
LargestPow2(N) == 2 ^ Log2Floor(N)

\* C30 (under FairRun): on every N >= 1 the list-based recursive_fft raises
\* nothing and returns, and what it returns has as many elements as the
\* largest power of two <= N: N elements exactly when N is a power of two,
\* fewer than N otherwise.
C30_TruncatedOutput ==
    /\ [](\A pr \in DOMAIN stack :
            (task[pr] = "recursive_fft" /\ InputLen(pr) >= 1) =>
                /\ outcome[pr].status \in {"none", "ok"}
                /\ Done(pr) =>
                       /\ Len(Produced(pr).value) = LargestPow2(InputLen(pr))
                       /\ Len(Produced(pr).value) = InputLen(pr) <=> IsPow2(InputLen(pr))
                       /\ ~IsPow2(InputLen(pr)) => Len(Produced(pr).value) < InputLen(pr))
    /\ <>[](\A pr \in DOMAIN stack :
               (task[pr] = "recursive_fft" /\ InputLen(pr) >= 1) => Finished(pr))

\* recursive_fft has returned eight values for the twelve samples of the
\* length-12 ramp.
C30_Witness ==
    /\ task[1] = "recursive_fft"
    /\ orig[1] = Ramp(12)
    /\ Done(1)
    /\ outcome[1].status = "ok"
    /\ Len(heap[outcome[1].ref]) = 8

====
